---- MODULE Spec2Model ----
(***************************************************************************)
(* Mimikry (src/main.rs): a root process that impersonates domains on the  *)
(* local machine.  The model covers the persistent system state the        *)
(* program changes (/etc/hosts, the trust-anchor file, the CA bundle, the  *)
(* user's NSS database) and the operations that change it: update_hosts,   *)
(* cleanup_hosts, install_trust, remove_trust, cleanup_system and main.    *)
(* Strings are sequences of one-character strings, so that the byte-level  *)
(* behaviour of BufRead::lines, str::trim, str::ends_with and writeln! is  *)
(* modelled as the code computes it.                                       *)
(***************************************************************************)
EXTENDS Integers, Sequences, FiniteSets

VARIABLES
    hosts,       \* content of /etc/hosts, a sequence of characters
    certFile,    \* /usr/local/share/ca-certificates/mimikry-ca.crt: "absent", "partial" or "pem"
    bundle,      \* TRUE iff the system CA bundle holds the Mimikry CA
    nss,         \* TRUE iff the user's NSS database holds the label "Mimikry CA"
    pc,          \* position of the running process (or of the called operation)
    ctx,         \* who called the running operation: "startup", "teardown", "harness"
    domains,     \* main's `domains` / update_hosts' argument: a sequence of strings
    lines,       \* cleanup_hosts' `lines`: the kept lines
    idx,         \* loop position of update_hosts' and cleanup_hosts' write loops
    exitCode,    \* exit status once the process has exited; -1 otherwise
    sigAt,       \* history: the state of main in which the interrupt signal arrived
    toreDown,    \* history: this run entered the teardown of line 79
    failedAt,    \* history: the startup step whose error ended this run ("trust_create":
                 \* install_trust's File::create, before anything was written)
    csHosts,     \* history: result of cleanup_hosts in the latest cleanup_system
    csTrust,     \* history: result of remove_trust in the latest cleanup_system
    hostsAtCall, \* history: content of /etc/hosts when the latest hosts operation was called
    wrote,       \* history: the latest hosts operation opened /etc/hosts for writing
    hist,        \* history: the calls the harness has completed, [op, arg, res]
    lastEnv,     \* history: the environment of the harness's latest trust call
    hosts0,      \* history: content of /etc/hosts in the initial state
    certFile0,   \* history: the trust-anchor file in the initial state
    trace        \* history: the steps of main that have returned, [step, res, raced]

vars == <<hosts, certFile, bundle, nss, pc, ctx, domains, lines, idx, exitCode,
          sigAt, toreDown, failedAt, csHosts, csTrust, hostsAtCall,
          wrote, hist, lastEnv, hosts0, certFile0, trace>>

----------------------------------------------------------------------------
(* Bounds of the model. *)

\* lines of an initial /etc/hosts
MaxLines == 2
\* domains of one domain list
MaxDomains == 2
\* calls the harness of one manager makes
MaxOps == 3

----------------------------------------------------------------------------
(* Characters and strings. *)

LF == "\n"
CR == "\r"
SP == " "

\* const MIMIKRY_TAG: &str = "#mimikry-entry";
MIMIKRY_TAG == <<"#", "m", "i", "m", "i", "k", "r", "y", "-", "e", "n", "t", "r", "y">>

\* the literal "127.0.0.1 " of update_hosts' format string
LOOPBACK == <<"1", "2", "7", ".", "0", ".", "0", ".", "1", SP>>

\* char::is_whitespace, on the characters of the model
IsWhitespace(c) == c \in {SP, "\t", LF, CR}

\* s[a..b], empty when a > b
Slice(s, a, b) == IF a > b THEN <<>> ELSE SubSeq(s, a, b)

\* str::ends_with
ends_with(s, t) ==
    /\ Len(t) <= Len(s)
    /\ Slice(s, Len(s) - Len(t) + 1, Len(s)) = t

\* str::trim: leading and trailing whitespace removed
trim(s) ==
    LET keep == {i \in 1..Len(s) : ~IsWhitespace(s[i])}
    IN  IF keep = {} THEN <<>>
        ELSE LET lo == CHOOSE i \in keep : \A j \in keep : i <= j
                 hi == CHOOSE i \in keep : \A j \in keep : j <= i
             IN  SubSeq(s, lo, hi)

\* BufRead::lines: the file cut after every "\n"; a line loses its "\n" and,
\* only then, one "\r" before it; a last piece without "\n" is a line as it is
RECURSIVE ReadLines(_)
ReadLines(bytes) ==
    IF bytes = <<>> THEN <<>>
    ELSE LET nl == {i \in 1..Len(bytes) : bytes[i] = LF}
         IN  IF nl = {} THEN <<bytes>>
             ELSE LET p    == CHOOSE i \in nl : \A j \in nl : i <= j
                      raw  == Slice(bytes, 1, p - 1)
                      line == IF raw # <<>> /\ raw[Len(raw)] = CR
                              THEN Slice(raw, 1, Len(raw) - 1) ELSE raw
                  IN  <<line>> \o ReadLines(Slice(bytes, p + 1, Len(bytes)))

\* mutant: the tag is looked for at the start of the line
IsOurLine_StartsWith(line) ==
    /\ Len(MIMIKRY_TAG) <= Len(trim(line))
    /\ Slice(trim(line), 1, Len(MIMIKRY_TAG)) = MIMIKRY_TAG

\* the test of cleanup_hosts: line.trim().ends_with(MIMIKRY_TAG)
IsOurLine(line) == ends_with(trim(line), MIMIKRY_TAG)

\* cleanup_hosts' `lines` after the read loop: the lines it keeps, in order
KeptLines(bytes) == SelectSeq(ReadLines(bytes), LAMBDA l : ~IsOurLine(l))

\* mutant: `changed = true` on every line read, tagged or not
Changed_AnyLine(bytes) == Len(ReadLines(bytes)) > 0

\* cleanup_hosts' `changed` after the read loop
Changed(bytes) == \E i \in 1..Len(ReadLines(bytes)) : IsOurLine(ReadLines(bytes)[i])

\* the write_all calls of writeln!(file, "127.0.0.1 {} {}", domain, MIMIKRY_TAG)
HostsLinePieces(domain) == <<LOOPBACK, domain, <<SP>>, MIMIKRY_TAG, <<LF>>>>

\* the write_all calls of writeln!(file, "{}", line)
KeptLinePieces(line) == <<line, <<LF>>>>

\* the bytes of the first k pieces
RECURSIVE FirstPieces(_, _)
FirstPieces(pieces, k) ==
    IF k = 0 THEN <<>> ELSE FirstPieces(pieces, k - 1) \o pieces[k]

----------------------------------------------------------------------------
(* Inputs: the initial /etc/hosts and the domain lists of the command line. *)

\* contents of the lines of an initial /etc/hosts: a foreign entry, an entry
\* carrying the tag, and an entry carrying the tag followed by a blank
LinePool ==
    { <<"a">>,
      <<"b", SP>> \o MIMIKRY_TAG,
      <<"b", SP>> \o MIMIKRY_TAG \o <<SP>> }

\* a line with its terminator: "\n", and "\r\n" for the foreign entry
RawLines == {c \o <<LF>> : c \in LinePool} \cup {<<"a", CR, LF>>}

RECURSIVE TerminatedFiles(_)
TerminatedFiles(n) ==
    IF n = 0 THEN {<<>>}
    ELSE LET P == TerminatedFiles(n - 1)
         IN  P \cup {f \o l : f \in P, l \in RawLines}

\* the files of at most MaxLines lines; the last line may lack its terminator
HostsFiles ==
    TerminatedFiles(MaxLines)
        \cup {f \o c : f \in TerminatedFiles(MaxLines - 1), c \in LinePool}

\* a domain of the command line, after split(',') and trim()
DomainPool == { <<"x">> }

RECURSIVE ListsOver(_, _)
ListsOver(S, n) ==
    IF n = 0 THEN {<<>>}
    ELSE LET P == ListsOver(S, n - 1)
         IN  P \cup {Append(l, d) : l \in P, d \in S}

\* args.domains.split(',') never yields an empty list
DomainLists == ListsOver(DomainPool, MaxDomains) \ {<<>>}

----------------------------------------------------------------------------
(* The trust store and the two operations of the Trust Anchor Manager.  An  *)
(* operation is a function of the store and of what its system calls and    *)
(* child processes do (the environment of the call).                        *)

\* a child process: it cannot be started, it exits non-zero, it exits zero
CmdOutcome == {"nospawn", "nonzero", "zero"}

\* what File::create, write_all, update-ca-certificates, get_real_user_home,
\* fs::write of the temporary file and certutil -A do in one install_trust.
\* A call that fails ends the operation: what the later calls would have done
\* is not part of the environment (FirstFailure keeps one record for each).
InstallEnv ==
    { e \in [create : BOOLEAN, write : BOOLEAN, refresh : CmdOutcome,
             home : BOOLEAN, tmp : BOOLEAN, certutil : CmdOutcome] :
        /\ ~e.create => e.write
        /\ ~(e.create /\ e.write) => e.refresh = "zero"
        /\ ~(e.create /\ e.write /\ e.refresh = "zero") => e.home
        /\ ~(e.create /\ e.write /\ e.refresh = "zero" /\ e.home) => e.tmp
        /\ ~(e.create /\ e.write /\ e.refresh = "zero" /\ e.home /\ e.tmp)
              => e.certutil = "zero" }

\* what fs::remove_file, update-ca-certificates --fresh, get_real_user_home
\* and certutil -D do in one remove_trust
RemoveEnv ==
    { e \in [rm : BOOLEAN, refresh : CmdOutcome, home : BOOLEAN,
             certutil : CmdOutcome] :
        /\ e.refresh = "nospawn" => e.home
        /\ ~(e.refresh # "nospawn" /\ e.home) => e.certutil = "zero" }

Trust == [certFile |-> certFile, bundle |-> bundle, nss |-> nss]

install_trust(t, e) ==
    IF ~e.create THEN [res |-> "Err", t |-> t]
    ELSE IF ~e.write THEN [res |-> "Err", t |-> [t EXCEPT !.certFile = "partial"]]
    ELSE LET t1 == [t EXCEPT !.certFile = "pem"]
         IN  IF e.refresh # "zero" THEN [res |-> "Err", t |-> t1]
             ELSE LET t2 == [t1 EXCEPT !.bundle = TRUE]
                  IN  IF ~e.home THEN [res |-> "Ok", t |-> t2]
                      ELSE IF ~e.tmp THEN [res |-> "Err", t |-> t2]
                      ELSE [res |-> "Ok",
                            t   |-> IF e.certutil = "zero"
                                    THEN [t2 EXCEPT !.nss = TRUE] ELSE t2]

\* mutant: the trust-anchor file is never deleted
remove_trust_KeepsFile(t, e) ==
    IF e.refresh = "nospawn" THEN [res |-> "Err", t |-> t]
    ELSE [res |-> "Ok",
          t   |-> IF e.home /\ e.certutil = "zero"
                  THEN [t EXCEPT !.nss = FALSE] ELSE t]

\* mutant: fs::remove_file without the exists() test fails on a missing file
remove_trust_NoExistsTest(t, e) ==
    IF t.certFile = "absent" \/ ~e.rm THEN [res |-> "Err", t |-> t]
    ELSE LET t1 == [t EXCEPT !.certFile = "absent"]
         IN  IF e.refresh = "nospawn" THEN [res |-> "Err", t |-> t1]
             ELSE LET t2 == IF e.refresh = "zero"
                            THEN [t1 EXCEPT !.bundle = FALSE] ELSE t1
                  IN  [res |-> "Ok",
                       t   |-> IF e.home /\ e.certutil = "zero"
                               THEN [t2 EXCEPT !.nss = FALSE] ELSE t2]

remove_trust(t, e) ==
    IF t.certFile # "absent" /\ ~e.rm THEN [res |-> "Err", t |-> t]
    ELSE LET t1 == [t EXCEPT !.certFile = "absent"]
         IN  IF e.refresh = "nospawn" THEN [res |-> "Err", t |-> t1]
             ELSE LET t2 == IF e.refresh = "zero"
                            THEN [t1 EXCEPT !.bundle = FALSE] ELSE t1
                  IN  [res |-> "Ok",
                       t   |-> IF e.home /\ e.certutil = "zero"
                               THEN [t2 EXCEPT !.nss = FALSE] ELSE t2]

SetTrust(t) ==
    /\ certFile' = t.certFile
    /\ bundle' = t.bundle
    /\ nss' = t.nss

----------------------------------------------------------------------------
(* The state of main (spec 4.4) that a position of the process lies in. *)

InCleanupSystem == pc \in {"ch_open", "ch_create", "ch_write", "rt"}

InUpdateHosts == pc \in {"uh_open", "uh_write"}

Running == pc \notin {"idle", "exited", "killed"}

MainState ==
    IF ctx = "harness" THEN "Harness"
    ELSE IF pc = "main_uid" THEN "Start"
    ELSE IF pc = "main_cleanup" \/ (InCleanupSystem /\ ctx = "startup") THEN "Idle"
    ELSE IF pc = "main_generate" THEN "Generating"
    ELSE IF pc = "main_trust" THEN "TrustInstalling"
    ELSE IF pc = "main_hosts" \/ InUpdateHosts THEN "ResolutionOverriding"
    ELSE IF pc = "main_serve" THEN "Serving"
    ELSE IF InCleanupSystem /\ ctx = "teardown" THEN "TearingDown"
    ELSE "Ended"

----------------------------------------------------------------------------
(* Initial states. *)

InitCommon ==
    /\ hosts \in HostsFiles
    /\ hosts0 = hosts
    /\ hostsAtCall = hosts
    /\ certFile \in {"absent", "partial", "pem"}
    /\ certFile0 = certFile
    /\ bundle \in BOOLEAN
    /\ nss \in BOOLEAN
    /\ domains = <<>>
    /\ lines = <<>>
    /\ idx = 1
    /\ exitCode = -1
    /\ sigAt = "none"
    /\ toreDown = FALSE
    /\ failedAt = "none"
    /\ csHosts = "none"
    /\ csTrust = "none"
    /\ wrote = FALSE
    /\ hist = <<>>
    /\ lastEnv = "none"
    /\ trace = <<>>

\* A process has just been started.  The files are as anything before it left
\* them: an earlier process of this program may have been killed at any point,
\* so /etc/hosts may hold tagged lines and the trust anchor may be installed,
\* in part or in full.
Init ==
    /\ InitCommon
    /\ pc = "main_uid"
    /\ ctx = "startup"

\* a caller of the managers' operations, between two calls
InitHarness ==
    /\ InitCommon
    /\ pc = "idle"
    /\ ctx = "harness"

\* the caller makes at most MaxOps calls and stops at the first error
MayCall ==
    /\ pc = "idle"
    /\ Len(hist) < MaxOps
    /\ \A i \in 1..Len(hist) : hist[i].res = "Ok"

----------------------------------------------------------------------------
(* Returns.  Which statement follows a call depends on the caller. *)

\* a step of main has returned
Step(step, res) == [step |-> step, res |-> res, raced |-> FALSE]

\* main ends with status `code`; `step` is the startup step that failed
Exit(code, step) ==
    /\ pc' = "exited"
    /\ exitCode' = code
    /\ failedAt' = step

\* line 40: cleanup_system().ok();  line 79: cleanup_system()?; ... Ok(())
CleanupSystemReturn(res) ==
    IF ctx = "startup"
    THEN /\ pc' = "main_generate"
         /\ trace' = Append(trace, Step("cleanup", res))
         /\ UNCHANGED <<exitCode, failedAt>>
    ELSE /\ Exit(IF res = "Ok" THEN 0 ELSE 1, failedAt)
         /\ trace' = Append(trace, Step("teardown", res))

\* mutant: remove_trust is called also when cleanup_hosts returned Err
CleanupHostsReturn_AlwaysRemoveTrust(res) ==
    /\ csHosts' = res
    /\ IF ctx = "harness"
       THEN /\ pc' = "idle"
            /\ hist' = Append(hist, [op |-> "removeAll", arg |-> <<>>, res |-> res])
            /\ UNCHANGED <<exitCode, failedAt, trace>>
       ELSE /\ hist' = hist
            /\ pc' = "rt"
            /\ UNCHANGED <<exitCode, failedAt, trace>>

\* lines 296-297: cleanup_hosts()?; remove_trust()?;
CleanupHostsReturn(res) ==
    /\ csHosts' = res
    /\ IF ctx = "harness"
       THEN /\ pc' = "idle"
            /\ hist' = Append(hist, [op |-> "removeAll", arg |-> <<>>, res |-> res])
            /\ UNCHANGED <<exitCode, failedAt, trace>>
       ELSE /\ hist' = hist
            /\ IF res = "Ok"
               THEN pc' = "rt" /\ UNCHANGED <<exitCode, failedAt, trace>>
               ELSE CleanupSystemReturn("Err")

\* line 49: update_hosts(&domains).context(..)?;
UpdateHostsReturn(res) ==
    IF ctx = "harness"
    THEN /\ pc' = "idle"
         /\ hist' = Append(hist, [op |-> "add", arg |-> domains, res |-> res])
         /\ UNCHANGED <<exitCode, failedAt, trace>>
    ELSE /\ hist' = hist
         /\ trace' = Append(trace, Step("hosts", res))
         /\ IF res = "Ok"
            THEN pc' = "main_serve" /\ UNCHANGED <<exitCode, failedAt>>
            ELSE Exit(1, "hosts")

----------------------------------------------------------------------------
(* cleanup_hosts, one action per step that the file system can observe. *)

chFrame == <<certFile, bundle, nss, ctx, domains, sigAt, toreDown,
             csTrust, hostsAtCall, lastEnv, hosts0, certFile0>>

\* lines 269-282: open the file and read every line; File::open or a read fails,
\* or `lines` and `changed` are computed
ChRead ==
    /\ pc = "ch_open"
    /\ UNCHANGED <<hosts, idx, wrote>>
    /\ \/ /\ CleanupHostsReturn("Err")
          /\ UNCHANGED lines
       \/ /\ lines' = KeptLines(hosts)
          /\ IF Changed(hosts)
             THEN /\ pc' = "ch_create"
                  /\ UNCHANGED <<exitCode, failedAt, csHosts, hist, trace>>
             ELSE CleanupHostsReturn("Ok")
    /\ UNCHANGED chFrame

\* line 285: File::create fails, or it truncates the file
ChCreate ==
    /\ pc = "ch_create"
    /\ \/ /\ CleanupHostsReturn("Err")
          /\ UNCHANGED <<hosts, idx, wrote>>
       \/ /\ hosts' = <<>>
          /\ wrote' = TRUE
          /\ idx' = 1
          /\ pc' = "ch_write"
          /\ UNCHANGED <<exitCode, failedAt, csHosts, hist, trace>>
    /\ UNCHANGED <<lines>>
    /\ UNCHANGED chFrame

\* lines 286-288: writeln!(file, "{}", line) writes the line, or fails after
\* some of its write_all calls
ChWrite ==
    /\ pc = "ch_write"
    /\ idx <= Len(lines)
    /\ \/ /\ hosts' = hosts \o FirstPieces(KeptLinePieces(lines[idx]), 2)
          /\ idx' = idx + 1
          /\ UNCHANGED <<pc, exitCode, failedAt, csHosts, hist, trace>>
       \/ \E k \in 0..1 :
             /\ hosts' = hosts \o FirstPieces(KeptLinePieces(lines[idx]), k)
             /\ CleanupHostsReturn("Err")
             /\ UNCHANGED idx
    /\ UNCHANGED <<lines, wrote>>
    /\ UNCHANGED chFrame

\* lines 289-292: every kept line is written
ChDone ==
    /\ pc = "ch_write"
    /\ idx > Len(lines)
    /\ CleanupHostsReturn("Ok")
    /\ UNCHANGED <<hosts, lines, idx, wrote>>
    /\ UNCHANGED chFrame

----------------------------------------------------------------------------
(* update_hosts *)

uhFrame == <<certFile, bundle, nss, ctx, domains, lines, sigAt,
             toreDown, csHosts, csTrust, hostsAtCall, lastEnv, hosts0, certFile0>>

\* lines 254-257: open for append; the file is never created
UhOpen ==
    /\ pc = "uh_open"
    /\ \/ /\ UpdateHostsReturn("Err")
          /\ UNCHANGED <<idx, wrote>>
       \/ /\ wrote' = TRUE
          /\ idx' = 1
          /\ pc' = "uh_write"
          /\ UNCHANGED <<exitCode, failedAt, hist, trace>>
    /\ UNCHANGED hosts
    /\ UNCHANGED uhFrame

\* mutant: a domain whose line the file already holds is skipped
UhWrite_Dedup ==
    /\ pc = "uh_write"
    /\ idx <= Len(domains)
    /\ LET line == FirstPieces(HostsLinePieces(domains[idx]), 4)
       IN  hosts' = IF \E i \in 1..Len(ReadLines(hosts)) : ReadLines(hosts)[i] = line
                    THEN hosts
                    ELSE hosts \o line \o <<LF>>
    /\ idx' = idx + 1
    /\ UNCHANGED <<pc, exitCode, failedAt, hist, wrote, trace>>
    /\ UNCHANGED uhFrame

\* lines 259-261: writeln!(file, "127.0.0.1 {} {}", domain, MIMIKRY_TAG) appends
\* the line, or fails after some of its write_all calls
UhWrite ==
    /\ pc = "uh_write"
    /\ idx <= Len(domains)
    /\ \/ /\ hosts' = hosts \o FirstPieces(HostsLinePieces(domains[idx]), 5)
          /\ idx' = idx + 1
          /\ UNCHANGED <<pc, exitCode, failedAt, hist, trace>>
       \/ \E k \in 0..4 :
             /\ hosts' = hosts \o FirstPieces(HostsLinePieces(domains[idx]), k)
             /\ UpdateHostsReturn("Err")
             /\ UNCHANGED idx
    /\ UNCHANGED wrote
    /\ UNCHANGED uhFrame

\* lines 263-264
UhDone ==
    /\ pc = "uh_write"
    /\ idx > Len(domains)
    /\ UpdateHostsReturn("Ok")
    /\ UNCHANGED <<hosts, idx, wrote>>
    /\ UNCHANGED uhFrame

----------------------------------------------------------------------------
(* main *)

\* mutant: cleanup_system begins with remove_trust
CallCleanupSystem_TrustFirst(caller) ==
    /\ pc' = "rt"
    /\ ctx' = caller
    /\ csHosts' = "none"
    /\ csTrust' = "none"
    /\ hostsAtCall' = hosts
    /\ wrote' = FALSE

\* a call of cleanup_system (line 40 or line 79)
CallCleanupSystem(caller) ==
    /\ pc' = "ch_open"
    /\ ctx' = caller
    /\ csHosts' = "none"
    /\ csTrust' = "none"
    /\ hostsAtCall' = hosts
    /\ wrote' = FALSE

\* mutant: the uid is tested after the trust anchor has been removed
CheckPrivilege_AfterCleanup ==
    /\ pc = "main_uid"
    /\ \/ /\ Exit(1, "privilege")
          /\ certFile' = "absent"
          /\ UNCHANGED domains
       \/ /\ \E D \in DomainLists : domains' = D
          /\ pc' = "main_cleanup"
          /\ UNCHANGED <<exitCode, failedAt, certFile>>
    /\ UNCHANGED <<hosts, bundle, nss, ctx, lines, idx, sigAt,
                   toreDown, csHosts, csTrust, hostsAtCall, wrote, hist, lastEnv,
                   hosts0, certFile0, trace>>

\* lines 30-37: the uid is not 0 and main returns Err, or the arguments are parsed
CheckPrivilege ==
    /\ pc = "main_uid"
    /\ \/ /\ Exit(1, "privilege")
          /\ UNCHANGED domains
       \/ /\ \E D \in DomainLists : domains' = D
          /\ pc' = "main_cleanup"
          /\ UNCHANGED <<exitCode, failedAt>>
    /\ UNCHANGED <<hosts, certFile, bundle, nss, ctx, lines, idx, sigAt,
                   toreDown, csHosts, csTrust, hostsAtCall, wrote, hist, lastEnv,
                   hosts0, certFile0, trace>>

\* line 40: cleanup_system().ok();
StartupCleanup ==
    /\ pc = "main_cleanup"
    /\ CallCleanupSystem("startup")
    /\ UNCHANGED <<hosts, certFile, bundle, nss, domains, lines, idx, exitCode,
                   sigAt, toreDown, failedAt, hist, lastEnv, hosts0, certFile0,
                   trace>>

\* line 297: remove_trust()?; and the return of cleanup_system
RemoveTrust ==
    /\ pc = "rt"
    /\ \E e \in RemoveEnv :
          LET r == remove_trust(Trust, e)
          IN  /\ SetTrust(r.t)
              /\ csTrust' = r.res
              /\ CleanupSystemReturn(r.res)
    /\ UNCHANGED <<hosts, ctx, domains, lines, idx, sigAt, toreDown,
                   csHosts, hostsAtCall, wrote, hist, lastEnv, hosts0, certFile0>>

\* line 43: generate_certs(&domains)?;
Generate ==
    /\ pc = "main_generate"
    /\ \/ /\ Exit(1, "generate")
          /\ trace' = Append(trace, Step("generate", "Err"))
       \/ /\ pc' = "main_trust"
          /\ trace' = Append(trace, Step("generate", "Ok"))
          /\ UNCHANGED <<exitCode, failedAt>>
    /\ UNCHANGED <<hosts, certFile, bundle, nss, ctx, domains, lines, idx,
                   sigAt, toreDown, csHosts, csTrust, hostsAtCall, wrote, hist,
                   lastEnv, hosts0, certFile0>>

\* mutant: main goes on to update_hosts when install_trust returned Err
InstallTrust_NotFatal ==
    /\ pc = "main_trust"
    /\ \E e \in InstallEnv :
          LET r == install_trust(Trust, e)
          IN  /\ SetTrust(r.t)
              /\ trace' = Append(trace, Step("trust", r.res))
              /\ pc' = "main_hosts"
              /\ UNCHANGED <<exitCode, failedAt>>
    /\ UNCHANGED <<hosts, ctx, domains, lines, idx, sigAt, toreDown,
                   csHosts, csTrust, hostsAtCall, wrote, hist, lastEnv, hosts0,
                   certFile0>>

\* line 46: install_trust(&ca_cert_pem).context(..)?;
InstallTrust ==
    /\ pc = "main_trust"
    /\ \E e \in InstallEnv :
          LET r == install_trust(Trust, e)
          IN  /\ SetTrust(r.t)
              /\ trace' = Append(trace, Step("trust", r.res))
              /\ IF r.res = "Ok"
                 THEN pc' = "main_hosts" /\ UNCHANGED <<exitCode, failedAt>>
                 ELSE Exit(1, IF e.create THEN "trust" ELSE "trust_create")
    /\ UNCHANGED <<hosts, ctx, domains, lines, idx, sigAt, toreDown,
                   csHosts, csTrust, hostsAtCall, wrote, hist, lastEnv, hosts0, certFile0>>

\* line 49: the call of update_hosts
UpdateHosts ==
    /\ pc = "main_hosts"
    /\ pc' = "uh_open"
    /\ hostsAtCall' = hosts
    /\ wrote' = FALSE
    /\ UNCHANGED <<hosts, certFile, bundle, nss, ctx, domains, lines, idx, exitCode,
                   sigAt, toreDown, failedAt, csHosts, csTrust, hist,
                   lastEnv, hosts0, certFile0, trace>>

\* the three futures of select! (lines 71-73)
SelectEvents == {"server_http", "server_https", "ctrl_c"}

\* the listeners, whose futures bind their port when select! first polls them
Listeners == {"server_http", "server_https"}

\* mutant: a listener that completes ends the process at once, with status 0
Serve_ListenerEndsRun ==
    /\ pc = "main_serve"
    /\ \E ready \in (SUBSET SelectEvents) \ {{}} : \E ev \in ready :
          /\ trace' = Append(trace, [step  |-> "select", res |-> ev,
                                    raced |-> ready # {ev}])
          /\ IF ev = "ctrl_c"
             THEN /\ sigAt' = "Serving"
                  /\ toreDown' = TRUE
                  /\ CallCleanupSystem("teardown")
                  /\ UNCHANGED <<exitCode, failedAt>>
             ELSE /\ Exit(0, failedAt)
                  /\ UNCHANGED <<ctx, sigAt, toreDown, csHosts, csTrust,
                                 hostsAtCall, wrote>>
    /\ UNCHANGED <<hosts, certFile, bundle, nss, domains, lines, idx,
                   hist, lastEnv, hosts0, certFile0>>

\* lines 59-79.  Either some futures of select! are ready, select! takes one of
\* them (the branches are polled in random order), the others are dropped and
\* teardown follows (`raced`: more than one was ready): cleanup_system()?;
\* or a listener cannot bind its port
\* (or set up TLS): warp's run panics in the poll, the panic unwinds main
\* and the process ends with status 101.
Serve ==
    /\ pc = "main_serve"
    /\ \/ \E ready \in (SUBSET SelectEvents) \ {{}} : \E ev \in ready :
             /\ sigAt' = IF ev = "ctrl_c" THEN "Serving" ELSE sigAt
             /\ trace' = Append(trace, [step  |-> "select", res |-> ev,
                                       raced |-> ready # {ev}])
             /\ toreDown' = TRUE
             /\ CallCleanupSystem("teardown")
             /\ UNCHANGED <<exitCode, failedAt>>
       \/ \E l \in Listeners :
             /\ trace' = Append(trace, [step  |-> "select", res |-> "panic",
                                       raced |-> FALSE])
             /\ Exit(101, failedAt)
             /\ UNCHANGED <<ctx, sigAt, toreDown, csHosts, csTrust,
                            hostsAtCall, wrote>>
    /\ UNCHANGED <<hosts, certFile, bundle, nss, domains, lines, idx,
                   hist, lastEnv, hosts0, certFile0>>

\* SIGINT before select! polls signal::ctrl_c(): no handler is installed yet,
\* and the signal's default action ends the process
Interrupt ==
    /\ MainState \in {"Generating", "TrustInstalling", "ResolutionOverriding"}
    /\ pc' = "killed"
    /\ sigAt' = MainState
    /\ UNCHANGED <<hosts, certFile, bundle, nss, ctx, domains, lines, idx, exitCode,
                   toreDown, failedAt, csHosts, csTrust, hostsAtCall,
                   wrote, hist, lastEnv, hosts0, certFile0, trace>>

\* the process is killed (SIGKILL, power loss) between two steps
Crash ==
    /\ Running
    /\ ctx # "harness"
    /\ pc' = "killed"
    /\ UNCHANGED <<hosts, certFile, bundle, nss, ctx, domains, lines, idx, exitCode,
                   sigAt, toreDown, failedAt, csHosts, csTrust,
                   hostsAtCall, wrote, hist, lastEnv, hosts0, certFile0, trace>>

Next ==
    \/ CheckPrivilege
    \/ StartupCleanup
    \/ ChRead
    \/ ChCreate
    \/ ChWrite
    \/ ChDone
    \/ RemoveTrust
    \/ Generate
    \/ InstallTrust
    \/ UpdateHosts
    \/ UhOpen
    \/ UhWrite
    \/ UhDone
    \/ Serve
    \/ Interrupt
    \/ Crash

Spec == Init /\ [][Next]_vars

----------------------------------------------------------------------------
(* The Resolution Override Manager called directly: add and removeAll in    *)
(* any order, at most MaxOps calls.                                         *)

harnessFrame == <<certFile, bundle, nss, ctx, lines, idx, exitCode,
                  sigAt, toreDown, failedAt, csHosts, csTrust, hist, lastEnv,
                  hosts0, certFile0, trace>>

\* add(D)
CallAdd ==
    /\ MayCall
    /\ \E D \in DomainLists : domains' = D
    /\ pc' = "uh_open"
    /\ hostsAtCall' = hosts
    /\ wrote' = FALSE
    /\ UNCHANGED hosts
    /\ UNCHANGED harnessFrame

\* removeAll()
CallRemoveAll ==
    /\ MayCall
    /\ pc' = "ch_open"
    /\ hostsAtCall' = hosts
    /\ wrote' = FALSE
    /\ UNCHANGED <<hosts, domains>>
    /\ UNCHANGED harnessFrame

NextHosts ==
    \/ CallAdd
    \/ CallRemoveAll
    \/ ChRead
    \/ ChCreate
    \/ ChWrite
    \/ ChDone
    \/ UhOpen
    \/ UhWrite
    \/ UhDone

\* the hosts harness does not touch the trust store: one initial store is enough
InitHostsHarness ==
    /\ InitHarness
    /\ certFile = "absent"
    /\ ~bundle
    /\ ~nss

SpecHosts == InitHostsHarness /\ [][NextHosts]_vars

----------------------------------------------------------------------------
(* The Resolution Override Manager called with the domain list that main    *)
(* makes of the command line: add(domains), then removeAll().               *)

COMMA == ","

\* str::split(','): the pieces between the commas; never an empty list
RECURSIVE Split(_)
Split(str) ==
    LET cs == {i \in 1..Len(str) : str[i] = COMMA}
    IN  IF cs = {} THEN <<str>>
        ELSE LET p == CHOOSE i \in cs : \A j \in cs : i <= j
             IN  <<Slice(str, 1, p - 1)>> \o Split(Slice(str, p + 1, Len(str)))

\* line 35: args.domains.split(',').map(|s| s.trim().to_string()).collect()
ParseDomains(str) == [i \in 1..Len(Split(str)) |-> trim(Split(str)[i])]

\* what the operator types between two commas: a name, a name with blanks
\* around it, and a name with a line feed inside it
EntryPool == { <<"x">>, <<SP, "x", SP>>, <<"x", LF, "y">> }

\* the command-line arguments of at most n entries
RECURSIVE ArgumentsOver(_)
ArgumentsOver(n) ==
    IF n = 1 THEN EntryPool
    ELSE LET P == ArgumentsOver(n - 1)
         IN  P \cup {a \o <<COMMA>> \o d : a \in P, d \in EntryPool}

Arguments == ArgumentsOver(MaxDomains)

\* add(domains) with the domains of a command line, as the first call
CallAddParsed ==
    /\ MayCall
    /\ hist = <<>>
    /\ \E a \in Arguments : domains' = ParseDomains(a)
    /\ pc' = "uh_open"
    /\ hostsAtCall' = hosts
    /\ wrote' = FALSE
    /\ UNCHANGED hosts
    /\ UNCHANGED harnessFrame

NextParsed ==
    \/ CallAddParsed
    \/ CallRemoveAll
    \/ ChRead
    \/ ChCreate
    \/ ChWrite
    \/ ChDone
    \/ UhOpen
    \/ UhWrite
    \/ UhDone

SpecParsed == InitHostsHarness /\ [][NextParsed]_vars

----------------------------------------------------------------------------
(* The Trust Anchor Manager called directly: install and remove in any      *)
(* order, at most MaxOps calls.                                             *)

trustFrame == <<hosts, pc, ctx, domains, lines, idx, exitCode, sigAt,
                toreDown, failedAt, csHosts, csTrust, hostsAtCall, wrote,
                hosts0, certFile0, trace>>

\* install(pem)
CallInstall ==
    /\ pc = "idle"
    /\ Len(hist) < MaxOps
    /\ \E e \in InstallEnv :
          LET r == install_trust(Trust, e)
          IN  /\ SetTrust(r.t)
              /\ lastEnv' = e
              /\ hist' = Append(hist, [op |-> "install", arg |-> <<>>, res |-> r.res])
    /\ UNCHANGED trustFrame

\* remove()
CallRemove ==
    /\ pc = "idle"
    /\ Len(hist) < MaxOps
    /\ \E e \in RemoveEnv :
          LET r == remove_trust(Trust, e)
          IN  /\ SetTrust(r.t)
              /\ lastEnv' = e
              /\ hist' = Append(hist, [op |-> "remove", arg |-> <<>>, res |-> r.res])
    /\ UNCHANGED trustFrame

NextTrust ==
    \/ CallInstall
    \/ CallRemove

\* the trust harness does not read /etc/hosts: one initial file is enough
InitTrustHarness ==
    /\ InitHarness
    /\ hosts = <<>>

SpecTrust == InitTrustHarness /\ [][NextTrust]_vars

----------------------------------------------------------------------------
(* The words of the claims. *)

\* a line ends in the sentinel tag
EndsInTag(line) == ends_with(line, MIMIKRY_TAG)

\* the file holds a line ending in the sentinel tag
HasLineEndingInTag(bytes) ==
    \E i \in 1..Len(ReadLines(bytes)) : EndsInTag(ReadLines(bytes)[i])

\* the file holds a line that ends in the tag once blanks around it are dropped
HasTrimmedTaggedLine(bytes) ==
    \E i \in 1..Len(ReadLines(bytes)) :
        ends_with(trim(ReadLines(bytes)[i]), MIMIKRY_TAG)

\* the untagged lines of the file, in order and without their terminators;
\* a line is untagged when it does not end in the tag even once trimmed
UntaggedLines(bytes) ==
    SelectSeq(ReadLines(bytes), LAMBDA l : ~ends_with(trim(l), MIMIKRY_TAG))

\* the number of lines of a text that end in the tag
TaggedCount(bytes) ==
    Cardinality({i \in 1..Len(ReadLines(bytes)) : EndsInTag(ReadLines(bytes)[i])})

\* a file of exactly these lines, each ended by "\n"
RECURSIVE JoinLines(_)
JoinLines(ls) ==
    IF ls = <<>> THEN <<>> ELSE Head(ls) \o <<LF>> \o JoinLines(Tail(ls))

Last(h) == h[Len(h)]

\* the run entered Serving: select! has been reached or has returned
ReachedServing ==
    pc = "main_serve" \/ \E i \in 1..Len(trace) : trace[i].step = "select"

\* the positions of the trace at which `step` returned
StepsOf(step) == {i \in 1..Len(trace) : trace[i].step = step}

AllOk(h) == \A i \in 1..Len(h) : h[i].res = "Ok"

----------------------------------------------------------------------------
(* Claims about the Resolution Override Manager, under SpecHosts. *)

\* C1: add(D) followed by removeAll(), any number of times and both successful,
\* leaves the untagged lines of the file as they were in the initial file, in
\* the same order, whatever the initial file (a last line without terminator
\* included).
C1_AddRemoveAllKeepsUntagged ==
    ( /\ pc = "idle"
      /\ Len(hist) >= 2
      /\ AllOk(hist)
      /\ Last(hist).op = "removeAll"
      /\ hist[Len(hist) - 1].op = "add" )
    => UntaggedLines(hosts) = UntaggedLines(hosts0)

\* C8 as claimed: removeAll() on a file with no line ending in the tag does not
\* open the file for writing and leaves its content unchanged.
C8_NoLineEndingInTagNoWrite ==
    ( /\ pc = "idle"
      /\ Len(hist) >= 1
      /\ Last(hist).op = "removeAll"
      /\ ~HasLineEndingInTag(hostsAtCall) )
    => (~wrote /\ hosts = hostsAtCall)

\* C8 as amended: removeAll() on a file with no line that ends in the tag once
\* the blanks around the line are trimmed does not open the file for writing
\* and leaves its content unchanged.
C8_NoTaggedLineNoWrite ==
    ( /\ pc = "idle"
      /\ Len(hist) >= 1
      /\ Last(hist).op = "removeAll"
      /\ ~HasTrimmedTaggedLine(hostsAtCall) )
    => (~wrote /\ hosts = hostsAtCall)

\* removeAll() returned Ok on a file of foreign lines only
C8_Witness ==
    /\ pc = "idle"
    /\ Len(hist) >= 1
    /\ Last(hist).op = "removeAll"
    /\ Last(hist).res = "Ok"
    /\ ~HasTrimmedTaggedLine(hostsAtCall)
    /\ Len(ReadLines(hostsAtCall)) = 2

\* C10: two add(D) in a row with the same D append two lines ending in the tag
\* for every domain of D and nothing else (no deduplication), and one
\* removeAll() after them leaves no line ending in the tag.
C10_NoDedupOneRemoveAll ==
    /\ ( /\ pc = "idle"
         /\ Len(hist) = 2
         /\ AllOk(hist)
         /\ hist[1].op = "add" /\ hist[2].op = "add"
         /\ hist[1].arg = hist[2].arg )
       => LET added == Slice(hosts, Len(hosts0) + 1, Len(hosts))
          IN  /\ Slice(hosts, 1, Len(hosts0)) = hosts0
              /\ Len(ReadLines(added)) = 2 * Len(hist[1].arg)
              /\ TaggedCount(added) = 2 * Len(hist[1].arg)
    /\ ( /\ pc = "idle"
         /\ Len(hist) >= 3
         /\ AllOk(hist)
         /\ Last(hist).op = "removeAll"
         /\ hist[Len(hist) - 1].op = "add" /\ hist[Len(hist) - 2].op = "add"
         /\ hist[Len(hist) - 1].arg = hist[Len(hist) - 2].arg )
       => ~HasLineEndingInTag(hosts)

\* add(<<x, x>>) twice and then removeAll(), on a file that held a foreign line
C10_Witness ==
    /\ pc = "idle"
    /\ Len(hist) = 3
    /\ AllOk(hist)
    /\ hist[1].op = "add" /\ hist[2].op = "add" /\ hist[3].op = "removeAll"
    /\ hist[1].arg = hist[2].arg
    /\ Len(hist[1].arg) = 2
    /\ hosts = <<"a", LF>>

\* C19: every line that a successful add() appends ends in the tag, for every
\* domain list that main makes of a command line, and a successful removeAll()
\* after it leaves nothing of what add() wrote: a file that ended with a line
\* terminator holds exactly its untagged lines again.
C19_EveryAddedLineTagged ==
    /\ ( /\ pc = "idle"
         /\ Len(hist) = 1
         /\ hist[1].op = "add"
         /\ hist[1].res = "Ok" )
       => LET added == ReadLines(Slice(hosts, Len(hosts0) + 1, Len(hosts)))
          IN  \A i \in 1..Len(added) : EndsInTag(added[i])
    /\ ( /\ pc = "idle"
         /\ Len(hist) = 2
         /\ AllOk(hist)
         /\ hist[1].op = "add"
         /\ hist[2].op = "removeAll"
         /\ (hosts0 = <<>> \/ hosts0[Len(hosts0)] = LF) )
       => hosts = JoinLines(UntaggedLines(hosts0))

----------------------------------------------------------------------------
(* Claims about the Trust Anchor Manager, under SpecTrust. *)

\* C9: remove() does not need install(): when its own system calls work
\* (fs::remove_file succeeds, update-ca-certificates starts) it returns Ok
\* whether or not the anchor is installed; and calling it again in the same
\* environment returns the same result and leaves the trust store as the
\* first call left it.
C9_RemoveIdempotent ==
    ( /\ Len(hist) >= 1
      /\ Last(hist).op = "remove" )
    => LET again == remove_trust(Trust, lastEnv)
       IN  /\ again.res = Last(hist).res
           /\ again.t = Trust
           /\ (lastEnv.rm /\ lastEnv.refresh # "nospawn") => Last(hist).res = "Ok"

\* remove() returned Ok twice in a row, install() was never called and no
\* anchor was there
C9_Witness ==
    /\ Len(hist) = 2
    /\ hist[1].op = "remove" /\ hist[2].op = "remove"
    /\ AllOk(hist)
    /\ certFile0 = "absent"

\* C11: install() whose File::create, write_all and update-ca-certificates all
\* succeeded returns Ok, whatever the browser step does (the temporary file
\* cannot be written, certutil cannot be started, certutil exits non-zero).
C11_BrowserStepNeverFatal ==
    ( /\ Len(hist) >= 1
      /\ Last(hist).op = "install"
      /\ lastEnv.create
      /\ lastEnv.write
      /\ lastEnv.refresh = "zero" )
    => Last(hist).res = "Ok"

\* C17: remove() returns Err whenever update-ca-certificates --fresh fails,
\* whether it cannot be started or it exits with a non-zero status.
C17_RefreshFailurePropagates ==
    ( /\ Len(hist) >= 1
      /\ Last(hist).op = "remove"
      /\ lastEnv.refresh # "zero" )
    => Last(hist).res = "Err"

----------------------------------------------------------------------------
(* Claims about main, under Spec. *)

\* C2: a run that ends because install_trust failed after writing the
\* trust-anchor file, or because update_hosts failed, has entered teardown
\* before it exits.
C2_FailedStartupTearsDown ==
    (pc = "exited" /\ failedAt \in {"trust", "hosts"}) => toreDown

\* C3: a run that received the interrupt signal in Generating, TrustInstalling,
\* ResolutionOverriding or Serving does not end without entering teardown.
C3_InterruptLeadsToTeardown ==
    (pc \in {"exited", "killed"} /\ sigAt # "none") => toreDown

\* C4: when the interrupt arrived in Serving and both teardown operations
\* returned Ok, the process exits with no line ending in the tag in /etc/hosts
\* and without the trust-anchor file.
C4_InterruptedServingLeavesClean ==
    ( /\ pc = "exited"
      /\ sigAt = "Serving"
      /\ csHosts = "Ok"
      /\ csTrust = "Ok" )
    => (~HasLineEndingInTag(hosts) /\ certFile = "absent")

\* the run was interrupted in Serving, teardown found tagged lines and the
\* anchor, removed both and the process exited with status 0
C4_Witness ==
    /\ pc = "exited"
    /\ exitCode = 0
    /\ sigAt = "Serving"
    /\ csHosts = "Ok"
    /\ csTrust = "Ok"
    /\ wrote
    /\ HasLineEndingInTag(hostsAtCall)
    /\ hosts = <<"a", LF>>

\* C5: once cleanup_system has returned, remove_trust was invoked in it even
\* when cleanup_hosts returned Err.
C5_CleanupAttemptsBoth ==
    (~InCleanupSystem /\ csHosts = "Err") => csTrust # "none"

\* C6 as claimed: when certificate generation begins, the defensive cleanup has
\* removed every tagged line and the trust-anchor file.
C6_CleanBeforeGenerating ==
    pc = "main_generate" => (~HasLineEndingInTag(hosts) /\ certFile = "absent")

\* C6 as amended: when certificate generation begins after a defensive cleanup
\* whose two operations returned Ok, /etc/hosts holds no tagged line and
\* exactly the untagged lines the earlier process left, the trust-anchor file
\* is gone, and main holds nothing of the earlier process.
C6_CleanAfterSuccessfulCleanup ==
    ( /\ pc = "main_generate"
      /\ csHosts = "Ok"
      /\ csTrust = "Ok" )
    => /\ ~HasLineEndingInTag(hosts)
       /\ ~HasTrimmedTaggedLine(hosts)
       /\ certFile = "absent"
       /\ hosts = IF HasTrimmedTaggedLine(hosts0)
                  THEN JoinLines(UntaggedLines(hosts0)) ELSE hosts0

\* the earlier process left a tagged line and the anchor; the defensive cleanup
\* removed both
C6_Witness ==
    /\ pc = "main_generate"
    /\ csHosts = "Ok"
    /\ csTrust = "Ok"
    /\ HasLineEndingInTag(hosts0)
    /\ certFile0 = "pem"
    /\ hosts = <<"a", LF>>

\* C7: while cleanup_hosts rewrites /etc/hosts, the file holds either its
\* content before the call or exactly the kept lines.
C7_RewriteIsAtomic ==
    (pc = "ch_write")
    => (hosts = hostsAtCall \/ hosts = JoinLines(UntaggedLines(hostsAtCall)))

\* C12: a run that reached Serving and was ended by the interrupt signal exits
\* with status 0 whatever teardown returned, and a run ended by a fatal startup
\* error (privilege, generation, trust installation, resolution override) exits
\* with a non-zero status.
C12_ExitStatus ==
    /\ (pc = "exited" /\ sigAt = "Serving") => exitCode = 0
    /\ (pc = "exited" /\ failedAt # "none") => exitCode # 0

\* C13: a run that entered Serving does not exit without having entered
\* teardown, whatever happened to its listeners (bind failure, TLS setup
\* failure, listener ending).
C13_ListenerFailureTearsDown ==
    (pc = "exited" /\ ReachedServing) => toreDown

\* C14: in teardown remove_trust is invoked only after cleanup_hosts of the
\* same teardown has been attempted: whenever remove_trust is about to run or
\* has returned, cleanup_hosts has returned.
C14_RemoveAllBeforeRemove ==
    (ctx = "teardown" /\ (pc = "rt" \/ csTrust # "none")) => csHosts # "none"

\* teardown rewrote /etc/hosts and then removed the trust anchor that this
\* run had installed
C14_Witness ==
    /\ ctx = "teardown"
    /\ csHosts = "Ok"
    /\ csTrust = "Ok"
    /\ wrote
    /\ StepsOf("trust") # {}
    /\ certFile = "absent"
    /\ pc = "exited"

\* C15: Serving is entered only after the defensive cleanup, generate_certs,
\* install_trust and update_hosts have returned, in this order, the last three
\* with Ok; and a failure of one of the three ends the run with a non-zero
\* status before anything else is done.
C15_ServingOnlyAfterStartup ==
    /\ ReachedServing
          => /\ Len(trace) >= 4
             /\ trace[1].step = "cleanup"
             /\ trace[2] = Step("generate", "Ok")
             /\ trace[3] = Step("trust", "Ok")
             /\ trace[4] = Step("hosts", "Ok")
    /\ \A i \in 1..Len(trace) :
          (trace[i].step \in {"generate", "trust", "hosts"} /\ trace[i].res = "Err")
             => (pc = "exited" /\ exitCode # 0 /\ i = Len(trace))

\* the listeners are about to start: the anchor is installed and /etc/hosts
\* holds the lines of two domains
C15_Witness ==
    /\ pc = "main_serve"
    /\ Len(trace) = 4
    /\ certFile = "pem"
    /\ bundle
    /\ Len(domains) = 2
    /\ TaggedCount(hosts) >= 2

\* C16: a process that is not run by root ends with a non-zero status before
\* any operation is invoked; /etc/hosts, the trust-anchor file, the CA bundle
\* and the NSS database are as they were.
C16_UnprivilegedChangesNothing ==
    /\ [](failedAt = "privilege"
            => /\ pc = "exited"
               /\ exitCode # 0
               /\ trace = <<>>
               /\ ~toreDown
               /\ csHosts = "none"
               /\ csTrust = "none"
               /\ ~wrote
               /\ hosts = hosts0
               /\ certFile = certFile0)
    /\ [][(pc = "main_uid" /\ pc' = "exited")
            => UNCHANGED <<hosts, certFile, bundle, nss>>]_vars

\* the unprivileged process found the residue of an earlier run and left it
C16_Witness ==
    /\ pc = "exited"
    /\ failedAt = "privilege"
    /\ HasLineEndingInTag(hosts)
    /\ certFile = "pem"
    /\ bundle

\* C18: select! returns once, with one of its three futures, and teardown
\* follows exactly once: a run ended by server_http, server_https or ctrl_c,
\* alone or ready together with others, has entered teardown, and when it has
\* exited cleanup_system has returned exactly once after select!.
C18_TeardownExactlyOnce ==
    /\ Cardinality(StepsOf("select")) <= 1
    /\ Cardinality(StepsOf("teardown")) <= 1
    /\ \A i \in StepsOf("select") :
          trace[i].res \in SelectEvents
             => /\ toreDown
                /\ ctx = "teardown"
                /\ pc = "exited" => StepsOf("teardown") = {i + 1}
                /\ (InCleanupSystem \/ pc = "killed") => StepsOf("teardown") = {}
    /\ StepsOf("teardown") # {} => StepsOf("select") # {}

\* the TLS listener completed while another future was ready too, and the
\* process exited after one teardown
C18_Witness ==
    /\ pc = "exited"
    /\ \E i \in StepsOf("select") :
          trace[i].res = "server_https" /\ trace[i].raced
    /\ Cardinality(StepsOf("teardown")) = 1
    /\ csTrust = "Ok"

\* C20: in every state of a run whose defensive cleanup returned Ok, a tagged
\* line in /etc/hosts (a line ending in the tag, trimmed or not) implies that
\* the trust-anchor file exists: the lines are added after the anchor is
\* installed and removed before it, on the failure paths of teardown too.
C20_TaggedLineImpliesAnchor ==
    (trace # <<>> /\ trace[1] = Step("cleanup", "Ok"))
    => ((HasLineEndingInTag(hosts) \/ HasTrimmedTaggedLine(hosts))
           => certFile # "absent")

\* teardown failed in cleanup_hosts: the tagged lines stay, and so does the
\* anchor
C20_Witness ==
    /\ pc = "exited"
    /\ trace # <<>>
    /\ trace[1] = Step("cleanup", "Ok")
    /\ ctx = "teardown"
    /\ csHosts = "Err"
    /\ HasLineEndingInTag(hosts)
    /\ certFile = "pem"

====
